---- MODULE Spec2Model ----
(***************************************************************************)
(* A model of the frame-acquisition core of AnaPrev (src/AnaPrev/          *)
(* anaprev.py): the FrameBuffer class and the VideoProcessor thread with   *)
(* its decoder subprocesses, progress monitors and consumer entry points.  *)
(***************************************************************************)
EXTENDS Integers, Sequences, FiniteSets, TLC

\* ------------------------------------------------------------------ bounds
\* Largest capacity a bounded FrameBuffer is constructed with.
MaxK == 2
\* Number of push() calls the FrameBuffer clients make.
MaxPushes == 4
\* Number of frames in the video file the decoder reads.
NumFrames == 2
\* Number of seek() calls the UI makes on one pipeline.
MaxSeeks == 1
\* The clock runs for this many monitor intervals.
MaxTicks == 1
\* Largest seek target, in monitor intervals.
MaxSeekTick == 1
\* Number of decoders the read loop spawns for seeks on one pipeline.
MaxRespawns == 2
\* Largest number of lines ffmpeg -hwaccels prints.
MaxLines == 3
\* Number of progress-monitor threads started on one object.
MaxMonitors == 2

\* time.sleep(0.1): the monitor's polling interval, in milliseconds.
TickMs == 100
\* The fallback duration of the video, in milliseconds.
DefaultDuration == 60000
\* The fallback width, height and frame rate of the video.
DefaultWidth == 640
DefaultHeight == 480
DefaultFrameRate == 30

\* ----------------------------------------------------------- Python values
\* Python's None, and a value that is not None.
None == <<>>
Some(x) == <<x>>

\* Python truthiness of an optional integer: None and 0 are both falsy.
Truthy(opt) == opt # None /\ opt[1] # 0

\* The threads that call into a FrameBuffer: the UI thread (display timer,
\* stop()) and the VideoProcessor thread (preload and read loop).
Threads == {"ui", "run"}
NoThread == "none"

VARIABLES
    buffer,       \* FrameBuffer.buffer: the list of frames
    max_size,     \* FrameBuffer.max_size: None or an integer
    mutex,        \* FrameBuffer.mutex: the thread holding it, or NoThread
    fb_pc,        \* per thread: where it is inside a FrameBuffer method
    fb_arg,       \* per thread: the frame handed to push()
    fb_res,       \* per thread: what its last FrameBuffer call returned
    next_frame,   \* the next frame a client pushes (frames are numbered)
    pushed,       \* the frames appended since construction or the last clear()
    cleared,      \* None, or the number of frames the last clear() removed
    attrs,        \* the lock and position attributes the VideoProcessor object has
    running,      \* VideoProcessor.running
    seek_position,            \* VideoProcessor.seek_position, when it exists
    current_position,         \* VideoProcessor.current_position, when it exists
    hw_accel_method,          \* VideoProcessor.hw_accel_method
    hw_acceleration_enabled,  \* VideoProcessor.hw_acceleration_enabled
    duration,     \* VideoProcessor.duration, in milliseconds
    video,        \* VideoProcessor.width, .height and .frame_rate
    probe,        \* what ffmpeg.probe() gave the constructor
    detection,    \* None, or the last detect_hw_acceleration() call
    run_pc,       \* where the QThread is in run()
    process,      \* the decoder the running function holds (index in procs), or 0
    success,      \* what run_with_hw_accel() returned, or None
    procs,        \* every decoder subprocess spawned so far
    spawn_errors, \* what each Popen call that raised was spawning, in order
    monitors,     \* every progress-monitor thread started so far
    now,          \* time.time(), in milliseconds
    ui_pc,        \* where the UI thread is in stop()
    seeks,        \* number of seek() calls made
    last_seek,    \* the last seek() call: its argument, when it came, how it ended
    ticks_after_seek,   \* monitor iterations begun since the last seek() call
    position_changed,   \* the position_changed signals emitted, in order
    frame_ready,        \* number of frame_ready signals emitted
    duration_changed    \* the duration_changed signals emitted, in order

fbvars == <<buffer, max_size, mutex, fb_pc, fb_arg, fb_res, next_frame, pushed, cleared>>

\* The VideoProcessor's own fields.
vpvars == <<attrs, running, seek_position, current_position, hw_accel_method,
            hw_acceleration_enabled, duration, video, probe, detection>>

\* The threads of the pipeline and its subprocesses.
thvars == <<run_pc, process, success, procs, spawn_errors, monitors, now, ui_pc>>

\* What the UI has asked for and been told.
obsvars == <<seeks, last_seek, ticks_after_seek, position_changed, frame_ready,
             duration_changed>>

plvars == <<vpvars, thvars, obsvars>>

vars == <<fbvars, plvars>>

\* What a FrameBuffer method returned: push() a boolean, get_latest() a frame
\* or None; clear() returns nothing.
Result(op, ok, val) == [op |-> op, ok |-> ok, val |-> val]
NoResult == Result("none", FALSE, None)

\* ------------------------------------------------------------- FrameBuffer
\* push() with pop() in place of pop(0): the newest frame is evicted.
PushBuffer_PopsNewest(buf, ms, frame) ==
    IF Truthy(ms) /\ Len(buf) >= ms[1]
    THEN Append(SubSeq(buf, 1, Len(buf) - 1), frame)
    ELSE Append(buf, frame)

\* push() that takes a missing max_size for a capacity of one.
PushBuffer_NoneIsOne(buf, ms, frame) ==
    IF (ms = None /\ Len(buf) >= 1) \/ (Truthy(ms) /\ Len(buf) >= ms[1])
    THEN Append(Tail(buf), frame)
    ELSE Append(buf, frame)

\* The list after the locked part of push(): at capacity the oldest frame
\* (index 0) is popped, then the frame is appended.
PushBuffer(buf, ms, frame) ==
    IF Truthy(ms) /\ Len(buf) >= ms[1]
    THEN Append(Tail(buf), frame)
    ELSE Append(buf, frame)

\* get_latest() with buffer[0] in place of buffer[-1].
LatestOf_Oldest(buf) == IF buf = <<>> THEN None ELSE Some(buf[1])

\* What the locked part of get_latest() returns.
LatestOf(buf) == IF buf = <<>> THEN None ELSE Some(buf[Len(buf)])

\* FrameBuffer.__init__: an empty list, the given max_size, a free mutex.
FrameBufferInit(ms) ==
    /\ buffer = <<>>
    /\ max_size = ms
    /\ mutex = NoThread

\* push(frame) is entered by thread t.
PushCall(t, frame) ==
    /\ fb_pc[t] = "idle"
    /\ fb_pc' = [fb_pc EXCEPT ![t] = "push_wait"]
    /\ fb_arg' = [fb_arg EXCEPT ![t] = frame]
    /\ UNCHANGED <<buffer, max_size, mutex, fb_res, pushed, cleared>>

\* tryLock(1000) succeeds: the mutex is free within the second.
PushAcquire(t) ==
    /\ UNCHANGED plvars
    /\ fb_pc[t] = "push_wait"
    /\ mutex = NoThread
    /\ mutex' = t
    /\ fb_pc' = [fb_pc EXCEPT ![t] = "push_locked"]
    /\ UNCHANGED <<buffer, max_size, fb_arg, fb_res, next_frame, pushed, cleared>>

\* push() that goes on to append after a failed tryLock (the early return
\* is missing).
PushTimeout_StillAppends(t) ==
    /\ UNCHANGED plvars
    /\ fb_pc[t] = "push_wait"
    /\ mutex # NoThread
    /\ buffer' = PushBuffer(buffer, max_size, fb_arg[t])
    /\ pushed' = Append(pushed, fb_arg[t])
    /\ fb_pc' = [fb_pc EXCEPT ![t] = "idle"]
    /\ fb_res' = [fb_res EXCEPT ![t] = Result("push", FALSE, None)]
    /\ fb_arg' = [fb_arg EXCEPT ![t] = 0]
    /\ UNCHANGED <<max_size, mutex, next_frame, cleared>>

\* tryLock(1000) fails: another thread still holds the mutex when the second
\* is over. push() returns False.
PushTimeout(t) ==
    /\ UNCHANGED plvars
    /\ fb_pc[t] = "push_wait"
    /\ mutex # NoThread
    /\ fb_pc' = [fb_pc EXCEPT ![t] = "idle"]
    /\ fb_res' = [fb_res EXCEPT ![t] = Result("push", FALSE, None)]
    /\ fb_arg' = [fb_arg EXCEPT ![t] = 0]
    /\ UNCHANGED <<buffer, max_size, mutex, next_frame, pushed, cleared>>

\* push() whose finally clause is missing: the mutex stays locked.
PushBody_KeepsMutex(t) ==
    /\ UNCHANGED plvars
    /\ fb_pc[t] = "push_locked"
    /\ buffer' = PushBuffer(buffer, max_size, fb_arg[t])
    /\ pushed' = Append(pushed, fb_arg[t])
    /\ fb_pc' = [fb_pc EXCEPT ![t] = "idle"]
    /\ fb_res' = [fb_res EXCEPT ![t] = Result("push", TRUE, None)]
    /\ fb_arg' = [fb_arg EXCEPT ![t] = 0]
    /\ UNCHANGED <<max_size, mutex, next_frame, cleared>>

\* The locked part of push(): evict, append, unlock, return True.
PushBody(t) ==
    /\ UNCHANGED plvars
    /\ fb_pc[t] = "push_locked"
    /\ buffer' = PushBuffer(buffer, max_size, fb_arg[t])
    /\ pushed' = Append(pushed, fb_arg[t])
    /\ mutex' = NoThread
    /\ fb_pc' = [fb_pc EXCEPT ![t] = "idle"]
    /\ fb_res' = [fb_res EXCEPT ![t] = Result("push", TRUE, None)]
    /\ fb_arg' = [fb_arg EXCEPT ![t] = 0]
    /\ UNCHANGED <<max_size, next_frame, cleared>>

\* get_latest() is entered by thread t.
GetCall(t) ==
    /\ fb_pc[t] = "idle"
    /\ fb_pc' = [fb_pc EXCEPT ![t] = "get_wait"]
    /\ UNCHANGED <<buffer, max_size, mutex, fb_arg, fb_res, pushed, cleared>>

GetAcquire(t) ==
    /\ UNCHANGED plvars
    /\ fb_pc[t] = "get_wait"
    /\ mutex = NoThread
    /\ mutex' = t
    /\ fb_pc' = [fb_pc EXCEPT ![t] = "get_locked"]
    /\ UNCHANGED <<buffer, max_size, fb_arg, fb_res, next_frame, pushed, cleared>>

\* tryLock(1000) fails: get_latest() returns None.
GetTimeout(t) ==
    /\ UNCHANGED plvars
    /\ fb_pc[t] = "get_wait"
    /\ mutex # NoThread
    /\ fb_pc' = [fb_pc EXCEPT ![t] = "idle"]
    /\ fb_res' = [fb_res EXCEPT ![t] = Result("get_latest", FALSE, None)]
    /\ UNCHANGED <<buffer, max_size, mutex, fb_arg, next_frame, pushed, cleared>>

\* get_latest() whose finally clause is missing: the mutex stays locked.
GetBody_KeepsMutex(t) ==
    /\ UNCHANGED plvars
    /\ fb_pc[t] = "get_locked"
    /\ fb_res' = [fb_res EXCEPT ![t] = Result("get_latest", TRUE, LatestOf(buffer))]
    /\ fb_pc' = [fb_pc EXCEPT ![t] = "idle"]
    /\ UNCHANGED <<buffer, max_size, mutex, fb_arg, next_frame, pushed, cleared>>

\* The locked part of get_latest(): the last element or None, then unlock.
GetBody(t) ==
    /\ UNCHANGED plvars
    /\ fb_pc[t] = "get_locked"
    /\ fb_res' = [fb_res EXCEPT ![t] = Result("get_latest", TRUE, LatestOf(buffer))]
    /\ mutex' = NoThread
    /\ fb_pc' = [fb_pc EXCEPT ![t] = "idle"]
    /\ UNCHANGED <<buffer, max_size, fb_arg, next_frame, pushed, cleared>>

\* clear() is entered by thread t.
ClearCall(t) ==
    /\ fb_pc[t] = "idle"
    /\ fb_pc' = [fb_pc EXCEPT ![t] = "clear_wait"]
    /\ UNCHANGED <<buffer, max_size, mutex, fb_arg, fb_res, pushed, cleared>>

\* mutex.lock(): waits, without a timeout, until the mutex is free.
ClearAcquire(t) ==
    /\ UNCHANGED plvars
    /\ fb_pc[t] = "clear_wait"
    /\ mutex = NoThread
    /\ mutex' = t
    /\ fb_pc' = [fb_pc EXCEPT ![t] = "clear_locked"]
    /\ UNCHANGED <<buffer, max_size, fb_arg, fb_res, next_frame, pushed, cleared>>

\* clear() that keeps the newest frame for the display.
ClearBody_KeepsNewest(t) ==
    /\ UNCHANGED plvars
    /\ fb_pc[t] = "clear_locked"
    /\ buffer' = IF buffer = <<>> THEN <<>> ELSE <<buffer[Len(buffer)]>>
    /\ pushed' = <<>>
    /\ cleared' = Some(Len(buffer))
    /\ mutex' = NoThread
    /\ fb_pc' = [fb_pc EXCEPT ![t] = "idle"]
    /\ fb_res' = [fb_res EXCEPT ![t] = Result("clear", TRUE, None)]
    /\ UNCHANGED <<max_size, fb_arg, next_frame>>

\* buffer.clear(), then unlock.
ClearBody(t) ==
    /\ UNCHANGED plvars
    /\ fb_pc[t] = "clear_locked"
    /\ buffer' = <<>>
    /\ pushed' = <<>>
    /\ cleared' = Some(Len(buffer))
    /\ mutex' = NoThread
    /\ fb_pc' = [fb_pc EXCEPT ![t] = "idle"]
    /\ fb_res' = [fb_res EXCEPT ![t] = Result("clear", TRUE, None)]
    /\ UNCHANGED <<max_size, fb_arg, next_frame>>

\* A FrameBuffer step of thread t that is inside one of the three methods.
FrameBufferStep(t) ==
    \/ PushAcquire(t)
    \/ PushTimeout(t)
    \/ PushBody(t)
    \/ GetAcquire(t)
    \/ GetTimeout(t)
    \/ GetBody(t)
    \/ ClearAcquire(t)
    \/ ClearBody(t)

\* ---------------------------------------------------------- VideoProcessor
\* ---- the constructor's probe
\* r_frame_rate and duration as ffprobe prints them: text. "abc" and "N/A"
\* stand for text that is no rate and no number.
FrameRateTexts == {"25/1", "abc"}
DurationTexts == {"10.0", "N/A"}

\* eval(text) of a frame-rate text: the number, or None when eval raises.
EvalRate(text) == IF text = "25/1" THEN Some(25) ELSE None

\* float(text) of a duration text, in seconds: the number, or None when
\* float raises ValueError.
ParseFloat(text) == IF text = "10.0" THEN Some(10) ELSE None

\* ffmpeg.probe(video_path) raised (no ffprobe, unreadable file).
ProbeFailed ==
    [raised |-> TRUE, has_video |-> FALSE, width |-> None, height |-> None,
     r_frame_rate |-> None, duration |-> None]

\* What ffmpeg.probe() can give: it raises, or it returns streams with or
\* without a video stream, whose width, height, r_frame_rate and duration
\* keys are each there or missing (None).
ProbeResults ==
    {ProbeFailed} \cup
    [raised : {FALSE}, has_video : BOOLEAN,
     width : {None, Some(1920)}, height : {None, Some(1080)},
     r_frame_rate : {None} \cup {Some(t) : t \in FrameRateTexts},
     duration : {None} \cup {Some(t) : t \in DurationTexts}]

\* The fallback values of the except clause.
Fallback ==
    [width |-> DefaultWidth, height |-> DefaultHeight,
     frame_rate |-> DefaultFrameRate, duration |-> DefaultDuration]

\* The try block raises: in probe(), in next() when no stream is a video
\* stream, at a missing key, in eval() or in float().
ProbeRaises(p) ==
    \/ p.raised
    \/ ~p.has_video
    \/ p.width = None
    \/ p.height = None
    \/ p.r_frame_rate = None
    \/ EvalRate(p.r_frame_rate[1]) = None
    \/ p.duration = None
    \/ ParseFloat(p.duration[1]) = None

\* The except clause leaving in place what the try block had assigned
\* before it raised.
ProbeVideo_KeepsParsed(p) ==
    IF p.raised \/ ~p.has_video THEN Fallback
    ELSE IF p.width = None THEN Fallback
    ELSE IF p.height = None THEN [Fallback EXCEPT !.width = p.width[1]]
    ELSE IF p.r_frame_rate = None \/ EvalRate(p.r_frame_rate[1]) = None
    THEN [Fallback EXCEPT !.width = p.width[1], !.height = p.height[1]]
    ELSE IF p.duration = None \/ ParseFloat(p.duration[1]) = None
    THEN [Fallback EXCEPT !.width = p.width[1], !.height = p.height[1],
                          !.frame_rate = EvalRate(p.r_frame_rate[1])[1]]
    ELSE [width |-> p.width[1], height |-> p.height[1],
          frame_rate |-> EvalRate(p.r_frame_rate[1])[1],
          duration |-> ParseFloat(p.duration[1])[1] * 1000]

\* width, height, frame_rate and duration (ms) as __init__ leaves them: the
\* probed values when every statement of the try block went through, the
\* four fallback values of the except clause otherwise.
ProbeVideo(p) ==
    IF ProbeRaises(p) THEN Fallback
    ELSE [width |-> p.width[1], height |-> p.height[1],
          frame_rate |-> EvalRate(p.r_frame_rate[1])[1],
          duration |-> ParseFloat(p.duration[1])[1] * 1000]

\* ---- detect_hw_acceleration()
\* The first line ffmpeg -hwaccels prints.
Header == "Hardware acceleration methods:"

\* The lines the command can print: the header, method names (vaapi is not
\* in the priority list), an empty line.
LineTexts == {Header, "cuda", "qsv", "vaapi", ""}

\* The sequences over S of at most n elements.
SeqsUpTo(S, n) == UNION {[1..k -> S] : k \in 0..n}

\* subprocess.run(['ffmpeg', '-hide_banner', '-hwaccels'], check=True): it
\* raises (no ffmpeg, non-zero exit), or returns stdout, here as its lines.
CommandFailed == [ok |-> FALSE, stdout |-> <<>>]
CommandResults ==
    {CommandFailed} \cup
    {[ok |-> TRUE, stdout |-> t] : t \in SeqsUpTo(LineTexts, MaxLines)}

\* text.strip(), on lines: empty lines at both ends are gone.
RECURSIVE StripLeft(_)
StripLeft(t) == IF t # <<>> /\ Head(t) = "" THEN StripLeft(Tail(t)) ELSE t
RECURSIVE StripRight(_)
StripRight(t) ==
    IF t # <<>> /\ t[Len(t)] = "" THEN StripRight(SubSeq(t, 1, Len(t) - 1))
    ELSE t

\* result.stdout.strip().split('\n'): an empty text splits into one empty
\* line.
SplitLines(t) ==
    LET stripped == StripRight(StripLeft(t))
    IN  IF stripped = <<>> THEN <<"">> ELSE stripped

\* available_methods: with more than one line the first is dropped, then
\* the empty lines are.
AvailableMethods(t) ==
    LET hw_accels == SplitLines(t)
        rest == IF Len(hw_accels) > 1 THEN Tail(hw_accels) ELSE hw_accels
    IN  SelectSeq(rest, LAMBDA method : method # "")

\* The order in which methods are preferred.
PriorityList == <<"cuda", "amf", "qsv", "d3d11va", "dxva2">>

\* The elements of sequence q.
Range(q) == {q[k] : k \in DOMAIN q}

\* The first element of q that is in set S, None when there is none.
RECURSIVE FirstIn(_, _)
FirstIn(q, S) ==
    IF q = <<>> THEN None
    ELSE IF Head(q) \in S THEN Some(Head(q)) ELSE FirstIn(Tail(q), S)

\* detect_hw_acceleration() that runs the command whatever the flag says.
DetectHwAcceleration_IgnoresFlag(enabled, result) ==
    IF ~result.ok THEN None
    ELSE LET available_methods == AvailableMethods(result.stdout)
         IN  IF available_methods = <<>> THEN None
             ELSE IF FirstIn(PriorityList, Range(available_methods)) # None
             THEN FirstIn(PriorityList, Range(available_methods))
             ELSE Some(available_methods[1])

\* What detect_hw_acceleration() returns: None when acceleration is disabled,
\* when the command raised or when no method is available; else the first
\* method of the priority list that is available; else the first available
\* method.
DetectHwAcceleration(enabled, result) ==
    IF ~enabled THEN None
    ELSE IF ~result.ok THEN None
    ELSE LET available_methods == AvailableMethods(result.stdout)
         IN  IF available_methods = <<>> THEN None
             ELSE IF FirstIn(PriorityList, Range(available_methods)) # None
             THEN FirstIn(PriorityList, Range(available_methods))
             ELSE Some(available_methods[1])

\* A detect_hw_acceleration() call: the flag it found, whether it ran the
\* command, what the command gave and what the call returned.
Detection(enabled, result) ==
    [enabled |-> enabled,
     result |-> IF enabled THEN result ELSE CommandFailed,
     ran |-> enabled,
     ret |-> DetectHwAcceleration(enabled, result)]

\* ---- the constructed object
\* VideoProcessor.__init__ when ffmpeg.probe() gave p: running is set, the
\* probe (or its fallback) has given width, height, frame rate and duration,
\* the frame buffer is unbounded, no method is selected and acceleration is
\* enabled. The constructor creates neither seek_mutex nor seek_position nor
\* position_mutex nor current_position: attrs, the set of those four
\* attributes the object has, is empty.
Construct(p) ==
    /\ FrameBufferInit(None)
    /\ attrs = {}
    /\ running = TRUE
    /\ seek_position = -1
    /\ current_position = -1
    /\ hw_accel_method = None
    /\ hw_acceleration_enabled = TRUE
    /\ probe = p
    /\ video = [width |-> ProbeVideo(p).width, height |-> ProbeVideo(p).height,
                frame_rate |-> ProbeVideo(p).frame_rate]
    /\ duration = ProbeVideo(p).duration
    /\ detection = None

\* The pipeline is studied on a file whose probe failed.
VideoProcessorInit == Construct(ProbeFailed)

\* Reading or calling through an attribute the object does not have raises
\* AttributeError.
HasAttr(a) == a \in attrs

\* A decoder subprocess: what it was spawned for, its -hwaccel flag, its -ss
\* offset in milliseconds, whether it is live, how many frames have been
\* read from its stdout, and how its output ended if a read has come back
\* without a full frame: "eof" with nothing, "short" with part of a frame.
Proc(kind, hwaccel, ss) ==
    [kind |-> kind, hwaccel |-> hwaccel, ss |-> ss, live |-> TRUE, out |-> 0,
     ended |-> "no"]

\* subprocess.Popen(cmd, ...) either starts the decoder or raises OSError
\* (FileNotFoundError when there is no ffmpeg binary).
PopenOutcomes == {"spawned", "OSError"}

\* The decoder at index i after a read that brought no full frame (r says
\* which kind), and process.terminate().
EndOfStream(ps, i, r) == [ps EXCEPT ![i].ended = r, ![i].live = FALSE]

\* A terminate() that leaves the decoder running.
Terminate_LeavesLive(ps, i) == ps

\* process.terminate() on the decoder at index i.
Terminate(ps, i) == [ps EXCEPT ![i].live = FALSE]

\* The decoder spawned on a seek: 'ffmpeg -ss <seek_sec> -i ...', with no
\* -hwaccel flag.
SeekProc(seek_pos) == Proc("seek", None, Some(seek_pos))

\* What ffmpeg -hwaccels gives on the machines the pipeline is studied on:
\* it fails, or it prints the header and cuda.
PipelineCommandResults ==
    {CommandFailed, [ok |-> TRUE, stdout |-> <<Header, "cuda">>]}

\* The seek targets the timeline hands to seek(), in milliseconds.
SeekTargets == {k * TickMs : k \in 0..MaxSeekTick}

\* process.stdout.read(frame_size) on decoder i: the next full frame, or
\* nothing (end of stream, or the decoder failed), or a partial block.
ReadResults(i) ==
    (IF procs[i].out < NumFrames THEN {"frame"} ELSE {}) \cup {"eof", "short"}

\* ---- the UI thread's entry points
UiIdle == ui_pc = "idle" /\ fb_pc["ui"] = "idle" /\ fb_res["ui"] = NoResult

\* start(): the QThread begins run().
Start ==
    /\ UiIdle
    /\ run_pc = "unstarted"
    /\ run_pc' = "preload_spawn"
    /\ UNCHANGED <<fbvars, vpvars, obsvars, process, success, procs, spawn_errors, monitors, now, ui_pc>>

\* run() is inside the loop of process_frames().
InReadLoop(pc) ==
    pc \in {"hw_frames", "hw_read", "hw_push", "sw_frames", "sw_read", "sw_push"}

\* Where run() is, as far as a caller of seek() is concerned: not yet in
\* the read loop, in it, or returned.
SeekPhase(pc) ==
    IF InReadLoop(pc) THEN "loop" ELSE IF pc = "done" THEN "done" ELSE "before"

\* A seek() call as the UI sees it: the argument, where run() was and what
\* running and the signal log were when it was made, and how it ended.
SeekCall(position_ms, outcome) ==
    [arg |-> position_ms, at |-> SeekPhase(run_pc), was_running |-> running,
     emitted |-> Len(position_changed), outcome |-> outcome]

\* seek() that also stores its argument as the current position.
Seek_WritesPosition(position_ms) ==
    /\ UiIdle
    /\ seeks < MaxSeeks
    /\ seeks' = seeks + 1
    /\ ticks_after_seek' = 0
    /\ current_position' = position_ms
    /\ IF HasAttr("seek_mutex")
       THEN /\ seek_position' = position_ms
            /\ attrs' = attrs \cup {"seek_position"}
            /\ last_seek' = SeekCall(position_ms, "returned")
       ELSE /\ UNCHANGED <<seek_position, attrs>>
            /\ last_seek' = SeekCall(position_ms, "AttributeError")
    /\ UNCHANGED <<fbvars, thvars, running, hw_accel_method, detection,
                   hw_acceleration_enabled, duration, video, probe, position_changed,
                   frame_ready, duration_changed>>

\* seek(position_ms): seek_mutex.lock(); seek_position = position_ms;
\* seek_mutex.unlock(). Without a seek_mutex attribute the first statement
\* raises AttributeError and nothing is stored.
Seek(position_ms) ==
    /\ UiIdle
    /\ seeks < MaxSeeks
    /\ seeks' = seeks + 1
    /\ ticks_after_seek' = 0
    /\ IF HasAttr("seek_mutex")
       THEN /\ seek_position' = position_ms
            /\ attrs' = attrs \cup {"seek_position"}
            /\ last_seek' = SeekCall(position_ms, "returned")
       ELSE /\ UNCHANGED <<seek_position, attrs>>
            /\ last_seek' = SeekCall(position_ms, "AttributeError")
    /\ UNCHANGED <<fbvars, thvars, running, current_position, hw_accel_method, detection,
                   hw_acceleration_enabled, duration, video, probe, position_changed,
                   frame_ready, duration_changed>>

\* stop(), first statement: running = False; then wait() begins.
StopCall ==
    /\ UiIdle
    /\ ui_pc' = "stop_wait"
    /\ running' = FALSE
    /\ UNCHANGED <<fbvars, obsvars, attrs, seek_position, current_position,
                   hw_accel_method, detection, hw_acceleration_enabled, duration, video, probe, run_pc,
                   process, success, procs, spawn_errors, monitors, now>>

\* stop() without self.wait(): clear() is entered while run() may go on.
StopJoin_NoWait ==
    /\ ui_pc = "stop_wait"
    /\ ui_pc' = "stop_clear"
    /\ ClearCall("ui")
    /\ UNCHANGED <<next_frame, vpvars, obsvars, run_pc, process, success, procs,
                   spawn_errors, monitors, now>>

\* stop(): wait() returns once run() has ended (or was never started);
\* frame_buffer.clear() is entered.
StopJoin ==
    /\ ui_pc = "stop_wait"
    /\ run_pc \in {"unstarted", "done", "uncaught"}
    /\ ui_pc' = "stop_clear"
    /\ ClearCall("ui")
    /\ UNCHANGED <<next_frame, vpvars, obsvars, run_pc, process, success, procs, spawn_errors,
                   monitors, now>>

\* stop() returns when clear() has.
StopReturn ==
    /\ ui_pc = "stop_clear"
    /\ fb_pc["ui"] = "idle"
    /\ ui_pc' = "stopped"
    /\ UNCHANGED <<fbvars, vpvars, obsvars, run_pc, process, success, procs, spawn_errors,
                   monitors, now>>

\* toggle_hw_acceleration(enabled).
ToggleHwAcceleration(enabled) ==
    /\ UiIdle
    /\ hw_acceleration_enabled # enabled
    /\ hw_acceleration_enabled' = enabled
    /\ UNCHANGED <<fbvars, thvars, obsvars, attrs, running, seek_position,
                   current_position, hw_accel_method, detection, duration, video, probe>>

\* update_display(), on the display timer: get_latest() while running.
UpdateDisplay ==
    /\ UiIdle
    /\ run_pc # "unstarted"
    /\ running
    /\ GetCall("ui")
    /\ UNCHANGED <<next_frame, plvars>>

\* update_display(), after get_latest() has returned: the frame, if there is
\* one, is handed to the player, and the handler returns.
SetFrame ==
    /\ ui_pc = "idle"
    /\ fb_pc["ui"] = "idle"
    /\ fb_res["ui"].op = "get_latest"
    /\ fb_res' = [fb_res EXCEPT !["ui"] = NoResult]
    /\ UNCHANGED <<buffer, max_size, mutex, fb_pc, fb_arg, next_frame, pushed, cleared,
                   plvars>>

\* ---- run(): the preload
\* preload_video() spawns its decoder. The Popen call stands before the try
\* block: when it raises, the exception leaves preload_video() and run()
\* uncaught.
PreloadSpawn ==
    /\ run_pc = "preload_spawn"
    /\ \E outcome \in PopenOutcomes :
        IF outcome = "spawned"
        THEN /\ procs' = Append(procs, Proc("preload", None, None))
             /\ process' = Len(procs) + 1
             /\ run_pc' = "preload_read"
             /\ UNCHANGED spawn_errors
        ELSE /\ spawn_errors' = Append(spawn_errors, "preload")
             /\ run_pc' = "uncaught"
             /\ UNCHANGED <<procs, process>>
    /\ UNCHANGED <<fbvars, vpvars, obsvars, success, monitors, now, ui_pc>>

\* What a read shorter than a frame brings, as a buffer entry: no frame of
\* the video (those are numbered from 1).
ShortBlock == 0

\* The preload loop pushing whatever a read brought that is not empty.
PreloadRead_PushesShort ==
    /\ run_pc = "preload_read"
    /\ fb_pc["run"] = "idle"
    /\ \E r \in ReadResults(process) :
        IF r \in {"frame", "short"}
        THEN /\ procs' = [procs EXCEPT ![process].out = @ + 1]
             /\ PushCall("run", IF r = "frame" THEN procs[process].out + 1
                                               ELSE ShortBlock)
             /\ run_pc' = "preload_push"
             /\ UNCHANGED <<next_frame, process>>
        ELSE /\ procs' = EndOfStream(procs, process, r)
             /\ process' = 0
             /\ run_pc' = "run_start"
             /\ UNCHANGED fbvars
    /\ UNCHANGED <<vpvars, obsvars, success, spawn_errors, monitors, now, ui_pc>>

\* One read of the preload loop. Nothing read: break. A partial block:
\* reshape raises, the except clause ends the loop. A full frame: push().
\* Leaving the loop runs the finally clause, process.terminate().
PreloadRead ==
    /\ run_pc = "preload_read"
    /\ fb_pc["run"] = "idle"
    /\ \E r \in ReadResults(process) :
        IF r = "frame"
        THEN /\ procs' = [procs EXCEPT ![process].out = @ + 1]
             /\ PushCall("run", procs[process].out + 1)
             /\ run_pc' = "preload_push"
             /\ UNCHANGED <<next_frame, process>>
        ELSE /\ procs' = EndOfStream(procs, process, r)
             /\ process' = 0
             /\ run_pc' = "run_start"
             /\ UNCHANGED fbvars
    /\ UNCHANGED <<vpvars, obsvars, success, spawn_errors, monitors, now, ui_pc>>

\* push() has returned in the preload loop: on False the loop breaks ("stopping
\* preload") and the decoder is terminated, on True the next frame is read.
PreloadPushed ==
    /\ run_pc = "preload_push"
    /\ fb_pc["run"] = "idle"
    /\ IF fb_res["run"].ok
       THEN /\ run_pc' = "preload_read"
            /\ UNCHANGED <<procs, spawn_errors, process>>
       ELSE /\ procs' = Terminate(procs, process)
            /\ process' = 0
            /\ run_pc' = "run_start"
    /\ UNCHANGED <<fbvars, vpvars, obsvars, success, spawn_errors, monitors, now,
                   ui_pc>>

\* ---- run(): after the preload
\* running = True; duration_changed is emitted when duration > 0; the
\* method is detected (None when acceleration is disabled) and the hardware
\* or the software run is chosen.
RunStart ==
    /\ run_pc = "run_start"
    /\ running' = TRUE
    /\ duration_changed' =
            IF duration > 0 THEN Append(duration_changed, duration)
            ELSE duration_changed
    /\ \E result \in PipelineCommandResults :
        /\ detection' = Some(Detection(hw_acceleration_enabled, result))
        /\ hw_accel_method' = DetectHwAcceleration(hw_acceleration_enabled, result)
        /\ run_pc' = IF hw_accel_method' # None THEN "hw_spawn" ELSE "sw_spawn"
    /\ UNCHANGED <<fbvars, attrs, seek_position, current_position,
                   hw_acceleration_enabled, duration, video, probe, process, success, procs, spawn_errors,
                   monitors, now, ui_pc, seeks, last_seek, ticks_after_seek,
                   position_changed, frame_ready>>

\* start_progress_monitor(): a new daemon thread; its first statement reads
\* the clock into start_time.
StartedMonitor ==
    [pc |-> "loop", start_time |-> now, wake |-> now, rebase |-> None,
     after |-> None]

\* run_with_hw_accel() up to process_frames(): spawn with -hwaccel <method>,
\* start a monitor. When Popen raises, the except clause prints the error
\* and returns False: no monitor is started.
HwSpawn ==
    /\ run_pc = "hw_spawn"
    /\ \E outcome \in PopenOutcomes :
        IF outcome = "spawned"
        THEN /\ procs' = Append(procs, Proc("hw", hw_accel_method, None))
             /\ process' = Len(procs) + 1
             /\ monitors' = Append(monitors, StartedMonitor)
             /\ run_pc' = "hw_frames"
             /\ UNCHANGED <<success, spawn_errors>>
        ELSE /\ spawn_errors' = Append(spawn_errors, "hw")
             /\ success' = Some(FALSE)
             /\ run_pc' = "hw_returned"
             /\ UNCHANGED <<procs, process, monitors>>
    /\ UNCHANGED <<fbvars, vpvars, obsvars, now, ui_pc>>

\* run_with_sw_decoding() up to process_frames(): spawn without -hwaccel,
\* start a monitor. When Popen raises, the except clause prints the error
\* and returns False, which run() does not look at: run() returns.
SwSpawn ==
    /\ run_pc = "sw_spawn"
    /\ \E outcome \in PopenOutcomes :
        IF outcome = "spawned"
        THEN /\ procs' = Append(procs, Proc("sw", None, None))
             /\ process' = Len(procs) + 1
             /\ monitors' = Append(monitors, StartedMonitor)
             /\ run_pc' = "sw_frames"
             /\ UNCHANGED spawn_errors
        ELSE /\ spawn_errors' = Append(spawn_errors, "sw")
             /\ run_pc' = "done"
             /\ UNCHANGED <<procs, process, monitors>>
    /\ UNCHANGED <<fbvars, vpvars, obsvars, success, now, ui_pc>>

\* The places of process_frames() when run_with_hw_accel() called it.
HwLoop == {"hw_frames", "hw_read", "hw_push"}

\* Where run() goes on when process_frames() returns.
Returned(pc) == IF pc \in HwLoop THEN "hw_returned" ELSE "done"

\* The read, the return of push() and the loop test of the same call.
ReadPc(pc) == IF pc \in HwLoop THEN "hw_read" ELSE "sw_read"
PushPc(pc) == IF pc \in HwLoop THEN "hw_push" ELSE "sw_push"
LoopTest(pc) == IF pc \in HwLoop THEN "hw_frames" ELSE "sw_frames"

\* The decoders spawned by the seek check of process_frames().
SeekRespawns == {i \in DOMAIN procs : procs[i].kind = "seek"}

\* process_frames(), from the loop test to the seek check. running false:
\* the loop is left and True returned. Otherwise seek_mutex.lock() comes
\* first; without the attribute it raises AttributeError, which the except
\* clause turns into False. With it, a pending seek_position (>= 0) terminates
\* the decoder and spawns 'ffmpeg -ss ...' in its place, and seek_position is
\* left as it is; when that Popen raises, the except clause returns False.
\* The read follows. Every way out passes the finally clause,
\* process.terminate().
ProcessFrames ==
    /\ run_pc \in {"hw_frames", "sw_frames"}
    /\ (running /\ HasAttr("seek_position") /\ seek_position >= 0)
            => Cardinality(SeekRespawns) < MaxRespawns
    /\ IF ~running
       THEN /\ success' = Some(TRUE)
            /\ procs' = Terminate(procs, process)
            /\ process' = 0
            /\ run_pc' = Returned(run_pc)
            /\ UNCHANGED spawn_errors
       ELSE IF ~(HasAttr("seek_mutex") /\ HasAttr("seek_position"))
       THEN /\ success' = Some(FALSE)
            /\ procs' = Terminate(procs, process)
            /\ process' = 0
            /\ run_pc' = Returned(run_pc)
            /\ UNCHANGED spawn_errors
       ELSE IF seek_position >= 0
       THEN \E outcome \in PopenOutcomes :
            IF outcome = "spawned"
            THEN /\ procs' = Append(Terminate(procs, process),
                                    SeekProc(seek_position))
                 /\ process' = Len(procs) + 1
                 /\ run_pc' = ReadPc(run_pc)
                 /\ UNCHANGED <<success, spawn_errors>>
            ELSE /\ spawn_errors' = Append(spawn_errors, "seek")
                 /\ success' = Some(FALSE)
                 /\ procs' = Terminate(procs, process)
                 /\ process' = 0
                 /\ run_pc' = Returned(run_pc)
       ELSE /\ run_pc' = ReadPc(run_pc)
            /\ UNCHANGED <<procs, process, success, spawn_errors>>
    /\ UNCHANGED <<fbvars, vpvars, obsvars, monitors, now, ui_pc>>

\* process_frames(): one read. Nothing or less than a frame: stderr is read
\* and printed, break, True is returned through the finally clause. A full
\* frame: push(frame.copy()).
ReadFrame ==
    /\ run_pc \in {"hw_read", "sw_read"}
    /\ fb_pc["run"] = "idle"
    /\ \E r \in ReadResults(process) :
        IF r = "frame"
        THEN /\ procs' = [procs EXCEPT ![process].out = @ + 1]
             /\ PushCall("run", procs[process].out + 1)
             /\ run_pc' = PushPc(run_pc)
             /\ UNCHANGED <<next_frame, process, success>>
        ELSE /\ procs' = EndOfStream(procs, process, r)
             /\ process' = 0
             /\ success' = Some(TRUE)
             /\ run_pc' = Returned(run_pc)
             /\ UNCHANGED fbvars
    /\ UNCHANGED <<vpvars, obsvars, spawn_errors, monitors, now, ui_pc>>

\* process_frames(): push() has returned; what it returned is not looked
\* at. frame_ready is emitted and the loop test comes next.
FramePushed ==
    /\ run_pc \in {"hw_push", "sw_push"}
    /\ fb_pc["run"] = "idle"
    /\ frame_ready' = frame_ready + 1
    /\ run_pc' = LoopTest(run_pc)
    /\ UNCHANGED <<fbvars, vpvars, process, success, procs, spawn_errors,
                   monitors, now, ui_pc, seeks, last_seek, ticks_after_seek,
                   position_changed, duration_changed>>

\* run() that tries the hardware run again when it failed.
HwReturned_RetriesHw ==
    /\ run_pc = "hw_returned"
    /\ IF success = Some(FALSE) /\ running
       THEN run_pc' = "hw_spawn"
       ELSE run_pc' = "done"
    /\ UNCHANGED <<hw_accel_method, detection, fbvars, obsvars, attrs, running,
                   seek_position, current_position, hw_acceleration_enabled,
                   duration, video, probe, process, success, procs, spawn_errors,
                   monitors, now, ui_pc>>

\* run() after run_with_hw_accel(): 'if not success and self.running' clears
\* the method and falls back to the software run.
HwReturned ==
    /\ run_pc = "hw_returned"
    /\ IF success = Some(FALSE) /\ running
       THEN /\ hw_accel_method' = None
            /\ run_pc' = "sw_spawn"
       ELSE /\ run_pc' = "done"
            /\ UNCHANGED hw_accel_method
    /\ UNCHANGED <<detection, fbvars, obsvars, attrs, running, seek_position,
                   current_position, hw_acceleration_enabled, duration, video, probe, process,
                   success, procs, spawn_errors, monitors, now, ui_pc>>

\* ---- the progress monitor
\* A monitor's origin after it found the pending seek target:
\* start_time = time.time() - seek_position / 1000.0, in milliseconds.
RebasedOrigin_DropsTarget(target) == now

RebasedOrigin(target) == now - target

\* What a monitor thread remembers of its first tick after a rebase: the
\* target and time of the rebase, the position that tick published and when.
\* A tick that follows no rebase leaves the record as it is.
Published(mon, position_ms) ==
    IF mon.rebase # None
    THEN Some([target |-> mon.rebase[1].target, rebased_at |-> mon.rebase[1].at,
               position |-> position_ms, at |-> now])
    ELSE mon.after

\* One iteration of monitor_progress() in monitor thread m, once its sleep
\* is over. running false: the thread ends. Otherwise the position is the
\* time since start_time; position_mutex.lock() comes next and, without the
\* attribute, raises AttributeError, which ends the thread before anything is
\* published. With it the position is stored and emitted, then a pending
\* seek_position rebases start_time and is reset to -1, and the thread
\* sleeps for TickMs.
MonitorTick(m) ==
    /\ monitors[m].pc = "loop"
    /\ now >= monitors[m].wake
    /\ ticks_after_seek' =
            IF seeks > 0 /\ running THEN ticks_after_seek + 1 ELSE ticks_after_seek
    /\ LET position_ms == now - monitors[m].start_time
       IN  IF ~running
           THEN /\ monitors' = [monitors EXCEPT ![m].pc = "exited"]
                /\ UNCHANGED <<attrs, current_position, seek_position,
                               position_changed>>
           ELSE IF ~HasAttr("position_mutex")
           THEN /\ monitors' = [monitors EXCEPT ![m].pc = "AttributeError"]
                /\ UNCHANGED <<attrs, current_position, seek_position,
                               position_changed>>
           ELSE /\ current_position' = position_ms
                /\ attrs' = attrs \cup {"current_position"}
                /\ position_changed' = Append(position_changed, position_ms)
                /\ IF ~(HasAttr("seek_mutex") /\ HasAttr("seek_position"))
                   THEN /\ monitors' = [monitors EXCEPT ![m].pc = "AttributeError"]
                        /\ UNCHANGED seek_position
                   ELSE IF seek_position >= 0
                   THEN /\ monitors' = [monitors EXCEPT
                                ![m].start_time = RebasedOrigin(seek_position),
                                ![m].wake = now + TickMs,
                                ![m].rebase = Some([target |-> seek_position,
                                                    at |-> now]),
                                ![m].after = Published(monitors[m], position_ms)]
                        /\ seek_position' = -1
                   ELSE /\ monitors' = [monitors EXCEPT
                                ![m].wake = now + TickMs,
                                ![m].rebase = None,
                                ![m].after = Published(monitors[m], position_ms)]
                        /\ UNCHANGED seek_position
    /\ UNCHANGED <<fbvars, running, hw_accel_method, detection, hw_acceleration_enabled,
                   duration, video, probe, run_pc, process, success, procs, spawn_errors, now, ui_pc, seeks,
                   last_seek, frame_ready, duration_changed>>

\* Time passes. Only differences to a monitor's start_time are ever read, so
\* the clock is left at rest until a monitor thread has been started.
Advance ==
    /\ monitors # <<>>
    /\ now + TickMs <= MaxTicks * TickMs
    /\ now' = now + TickMs
    /\ UNCHANGED <<fbvars, vpvars, obsvars, run_pc, process, success, procs, spawn_errors,
                   monitors, ui_pc>>

\* No thread of the pipeline has been started and no call made.
Unstarted ==
    /\ fb_pc = [t \in Threads |-> "idle"]
    /\ fb_arg = [t \in Threads |-> 0]
    /\ fb_res = [t \in Threads |-> NoResult]
    /\ next_frame = 1
    /\ pushed = <<>>
    /\ cleared = None
    /\ run_pc = "unstarted"
    /\ process = 0
    /\ success = None
    /\ procs = <<>>
    /\ spawn_errors = <<>>
    /\ monitors = <<>>
    /\ now = 0
    /\ ui_pc = "idle"
    /\ seeks = 0
    /\ last_seek = None
    /\ ticks_after_seek = 0
    /\ position_changed = <<>>
    /\ frame_ready = 0
    /\ duration_changed = <<>>

\* The state after VideoProcessor(video_path).
Init == VideoProcessorInit /\ Unstarted

Next ==
    \/ Start
    \/ \E position_ms \in SeekTargets : Seek(position_ms)
    \/ StopCall
    \/ StopJoin
    \/ StopReturn
    \/ \E enabled \in BOOLEAN : ToggleHwAcceleration(enabled)
    \/ UpdateDisplay
    \/ SetFrame
    \/ PreloadSpawn
    \/ PreloadRead
    \/ PreloadPushed
    \/ RunStart
    \/ HwSpawn
    \/ SwSpawn
    \/ ProcessFrames
    \/ HwReturned
    \/ \E m \in DOMAIN monitors : MonitorTick(m)
    \/ Advance
    \/ \E t \in Threads : FrameBufferStep(t)

Spec == Init /\ [][Next]_vars

\* ------------------------------------- the read loop past its seek check
\* The statements of process_frames() after the seek check (the read, the
\* push, the frame_ready signal) and those of monitor_progress() after
\* position_mutex.lock() are reached only on an object that has the
\* playback state the constructor does not create. PlaybackStateInit is the
\* constructed object with that state as the specification's PlaybackState
\* gives it: position 0, no pending seek target (-1 in the code's
\* encoding), and the two mutexes guarding them.
PlaybackAttrs ==
    {"seek_mutex", "seek_position", "position_mutex", "current_position"}

PlaybackStateInit ==
    /\ FrameBufferInit(None)
    /\ attrs = PlaybackAttrs
    /\ running = TRUE
    /\ seek_position = -1
    /\ current_position = 0
    /\ hw_accel_method = None
    /\ hw_acceleration_enabled = TRUE
    /\ probe = ProbeFailed
    /\ video = [width |-> DefaultWidth, height |-> DefaultHeight,
                frame_rate |-> DefaultFrameRate]
    /\ duration = DefaultDuration
    /\ detection = None

InitLoop == PlaybackStateInit /\ Unstarted

\* The pipeline is started, displayed and stopped; the UI neither seeks nor
\* toggles acceleration.
NextLoop ==
    \/ Start
    \/ StopCall
    \/ StopJoin
    \/ StopReturn
    \/ UpdateDisplay
    \/ SetFrame
    \/ PreloadSpawn
    \/ PreloadRead
    \/ PreloadPushed
    \/ RunStart
    \/ HwSpawn
    \/ SwSpawn
    \/ ProcessFrames
    \/ ReadFrame
    \/ FramePushed
    \/ HwReturned
    \/ \E m \in DOMAIN monitors : MonitorTick(m)
    \/ Advance
    \/ \E t \in Threads : FrameBufferStep(t)

SpecLoop == InitLoop /\ [][NextLoop]_vars

\* The same object when the timeline seeks: the pipeline is started and
\* sought; nothing is displayed and stop() is not called, so that no other
\* thread is in a FrameBuffer method when run() pushes.
NextSeek ==
    \/ Start
    \/ \E position_ms \in SeekTargets : Seek(position_ms)
    \/ PreloadSpawn
    \/ PreloadRead
    \/ PreloadPushed
    \/ RunStart
    \/ HwSpawn
    \/ SwSpawn
    \/ ProcessFrames
    \/ ReadFrame
    \/ FramePushed
    \/ HwReturned
    \/ \E m \in DOMAIN monitors : MonitorTick(m)
    \/ Advance
    \/ PushAcquire("run")
    \/ PushBody("run")

SpecSeek == InitLoop /\ [][NextSeek]_vars

\* ------------------------------------------- the progress monitor alone
\* start_progress_monitor(), called on its own: one more monitor thread.
StartProgressMonitor ==
    /\ Len(monitors) < MaxMonitors
    /\ monitors' = Append(monitors, StartedMonitor)
    /\ UNCHANGED <<fbvars, vpvars, obsvars, run_pc, process, success, procs,
                   spawn_errors, now, ui_pc>>

\* Monitor threads on the object with the playback state, while the
\* timeline seeks and run() is not started.
NextMonitor ==
    \/ StartProgressMonitor
    \/ \E position_ms \in SeekTargets : Seek(position_ms)
    \/ \E m \in DOMAIN monitors : MonitorTick(m)
    \/ Advance

SpecMonitor == InitLoop /\ [][NextMonitor]_vars

\* ------------------------------------- construction and method detection
\* detect_hw_acceleration() is called, as run() calls it once, and what it
\* returns is stored in hw_accel_method; the command gives result.
DetectCall(result) ==
    /\ detection = None
    /\ detection' = Some(Detection(hw_acceleration_enabled, result))
    /\ hw_accel_method' = DetectHwAcceleration(hw_acceleration_enabled, result)
    /\ UNCHANGED <<fbvars, thvars, obsvars, attrs, running, seek_position,
                   current_position, hw_acceleration_enabled, duration, video,
                   probe>>

\* VideoProcessor(video_path) on a file for which ffmpeg.probe() gives any of
\* ProbeResults.
InitSetup == (\E p \in ProbeResults : Construct(p)) /\ Unstarted

\* On the constructed object acceleration is toggled and methods are
\* detected, with any output of the command.
NextSetup ==
    \/ \E result \in CommandResults : DetectCall(result)
    \/ \E enabled \in BOOLEAN : ToggleHwAcceleration(enabled)

SpecSetup == InitSetup /\ [][NextSetup]_vars

\* ------------------------------------------- FrameBuffer used on its own
\* A FrameBuffer constructed with any max_size (None, 0, 1, ...) and called
\* by its client threads in any order.
ClientPush(t) ==
    /\ UNCHANGED plvars
    /\ next_frame <= MaxPushes
    /\ PushCall(t, next_frame)
    /\ next_frame' = next_frame + 1

ClientGet(t) ==
    /\ UNCHANGED plvars
    /\ GetCall(t)
    /\ UNCHANGED next_frame

ClientClear(t) ==
    /\ UNCHANGED plvars
    /\ ClearCall(t)
    /\ UNCHANGED next_frame

InitFB ==
    /\ \E ms \in {None} \cup {Some(k) : k \in 0..MaxK} : FrameBufferInit(ms)
    /\ fb_pc = [t \in Threads |-> "idle"]
    /\ fb_arg = [t \in Threads |-> 0]
    /\ fb_res = [t \in Threads |-> NoResult]
    /\ next_frame = 1
    /\ pushed = <<>>
    /\ cleared = None
    /\ attrs = {}
    /\ running = TRUE
    /\ seek_position = -1
    /\ current_position = -1
    /\ hw_accel_method = None
    /\ hw_acceleration_enabled = TRUE
    /\ probe = ProbeFailed
    /\ video = [width |-> DefaultWidth, height |-> DefaultHeight,
                frame_rate |-> DefaultFrameRate]
    /\ duration = DefaultDuration
    /\ detection = None
    /\ run_pc = "unstarted"
    /\ process = 0
    /\ success = None
    /\ procs = <<>>
    /\ spawn_errors = <<>>
    /\ monitors = <<>>
    /\ now = 0
    /\ ui_pc = "idle"
    /\ seeks = 0
    /\ last_seek = None
    /\ ticks_after_seek = 0
    /\ position_changed = <<>>
    /\ frame_ready = 0
    /\ duration_changed = <<>>

NextFB ==
    \E t \in Threads :
        \/ ClientPush(t)
        \/ ClientGet(t)
        \/ ClientClear(t)
        \/ FrameBufferStep(t)

SpecFB == InitFB /\ [][NextFB]_vars

\* ------------------------------------------------------------------ claims
\* The last k elements of a sequence.
LastK(seq, k) == SubSeq(seq, Len(seq) - k + 1, Len(seq))

\* Thread t returns from the locked part of get_latest() in this step.
GetReturns(t) == fb_pc[t] = "get_locked" /\ fb_pc'[t] = "idle"

\* Thread t gives up on the mutex in push() in this step.
PushGivesUp(t) == fb_pc[t] = "push_wait" /\ fb_pc'[t] = "idle"

\* C1: a buffer of capacity K >= 1 that has taken N > K pushes holds exactly
\* the last K pushed frames in arrival order, and a get_latest() that
\* returns then returns the Nth pushed frame.
C1_BoundedKeepsLastK ==
    /\ [](Truthy(max_size) /\ Len(pushed) > max_size[1]
            => buffer = LastK(pushed, max_size[1]))
    /\ [][\A t \in Threads :
            GetReturns(t) /\ Truthy(max_size) /\ Len(pushed) > max_size[1]
                => fb_res'[t].val = Some(pushed[Len(pushed)])]_vars

C1_Witness ==
    /\ max_size = Some(2)
    /\ Len(pushed) = 4
    /\ buffer = <<pushed[3], pushed[4]>>
    /\ fb_res["ui"] = Result("get_latest", TRUE, Some(pushed[4]))

\* C2: whenever max_size is given (0 included), the buffer never holds more
\* than max_size frames.
C2_SizeAtMostMaxSize == max_size # None => Len(buffer) <= max_size[1]

\* C3: with max_size = None the buffer holds every pushed frame, in push
\* order: no push evicts.
C3_UnboundedKeepsAll == max_size = None => buffer = pushed

C3_Witness ==
    /\ max_size = None
    /\ cleared = None
    /\ Len(buffer) = 4
    /\ \A i \in 1..3 : buffer[i] < buffer[i + 1]

\* C4: a push() whose tryLock times out returns False and leaves the list
\* and the mutex, held by the other thread, as they were.
C4_PushTimeoutChangesNothing ==
    [][\A t \in Threads :
        PushGivesUp(t)
            => /\ fb_res'[t] = Result("push", FALSE, None)
               /\ buffer' = buffer
               /\ mutex' = mutex
               /\ mutex \notin {NoThread, t}]_vars

C4_Witness ==
    /\ fb_res["run"] = Result("push", FALSE, None)
    /\ fb_pc["run"] = "idle"
    /\ mutex = "ui"
    /\ Len(buffer) = 2
    /\ next_frame = 4

\* C5: when clear() returns the list is empty, whatever it held and whatever
\* max_size is, and a get_latest() that returns before any later push has
\* appended returns None.
C5_ClearEmpties ==
    /\ [](cleared # None /\ pushed = <<>> => buffer = <<>>)
    /\ [][\A t \in Threads :
            /\ (fb_pc[t] = "clear_locked" /\ fb_pc'[t] = "idle" => buffer' = <<>>)
            /\ ((fb_pc[t] \in {"get_wait", "get_locked"} /\ fb_pc'[t] = "idle"
                    /\ cleared # None /\ pushed = <<>>)
                        => fb_res'[t].val = None)]_vars

C5_Witness ==
    /\ cleared = Some(3)
    /\ max_size = None
    /\ buffer = <<>>
    /\ pushed = <<>>
    /\ fb_res["ui"] = Result("get_latest", TRUE, None)

\* C6: get_latest() returns the newest frame in the list when it gets the
\* mutex and the list is not empty, None when the list is empty or the
\* mutex times out, and never changes the list.
C6_GetLatestReadsNewest ==
    [][\A t \in Threads :
        /\ (GetReturns(t)
                => /\ fb_res'[t].val =
                        IF buffer = <<>> THEN None ELSE Some(pushed[Len(pushed)])
                   /\ buffer' = buffer)
        /\ (fb_pc[t] = "get_wait" /\ fb_pc'[t] = "idle"
                => fb_res'[t].val = None /\ buffer' = buffer)
        /\ (fb_pc[t] = "idle" /\ fb_pc'[t] = "get_wait" => buffer' = buffer)
        /\ (fb_pc[t] = "get_wait" /\ fb_pc'[t] = "get_locked"
                => buffer' = buffer)]_vars

C6_Witness ==
    /\ Len(buffer) = 3
    /\ fb_res["ui"] = Result("get_latest", TRUE, Some(buffer[3]))
    /\ fb_res["run"] = Result("get_latest", FALSE, None)

\* The last seek() was made on a running pipeline whose read loop was live.
SeekOnRunningPipeline ==
    seeks > 0 /\ last_seek.at = "loop" /\ last_seek.was_running

\* run() has ended and stop() was never called.
RanToEnd == run_pc = "done" /\ ui_pc = "idle"

\* C7: on a running pipeline, once a monitor tick has followed seek(T), that
\* tick has published a position within one interval (100 ms) of T.
C7_TickAfterSeekPublishesTarget ==
    SeekOnRunningPipeline /\ ticks_after_seek >= 1
        => /\ Len(position_changed) > last_seek.emitted
           /\ position_changed[last_seek.emitted + 1] - last_seek.arg <= TickMs
           /\ last_seek.arg - position_changed[last_seek.emitted + 1] <= TickMs

\* C8: a seek(T) made while the read loop is running is not lost: by the
\* time run() has ended (without a stop()) the read loop has spawned a
\* replacement decoder with start offset T.
C8_SeekIsServedByRespawn ==
    SeekOnRunningPipeline /\ RanToEnd
        => \E i \in SeekRespawns : procs[i].ss = Some(last_seek.arg)

\* C9: one seek() call made before the read loop's seek check causes exactly
\* one decoder restart in a run that is not stopped.
C9_OneRestartPerSeek ==
    seeks = 1 /\ last_seek.at # "done" /\ RanToEnd
        => Cardinality(SeekRespawns) = 1

\* C10: every seek(position_ms) call returns normally, leaves position_ms as
\* the pending seek target, and changes neither the subprocesses nor running
\* nor the current position nor the frame buffer.
C10_SeekRecordsTarget ==
    [][seeks' = seeks + 1
        => /\ last_seek'.outcome = "returned"
           /\ "seek_position" \in attrs'
           /\ seek_position' = last_seek'.arg
           /\ UNCHANGED <<procs, process, running, current_position, attrs
                           \ {"seek_position"}, buffer>>]_vars

\* ------------------------------------------------- fallback and shutdown
\* The decoders of the hardware and of the software run.
HwDecoders == {i \in DOMAIN procs : procs[i].kind = "hw"}
SwDecoders == {i \in DOMAIN procs : procs[i].kind = "sw"}

\* C11: when the accelerated decoder was started and brought no full frame
\* while the pipeline was running, a run left to itself ends only after a
\* decoder without the -hwaccel flag was spawned and frames were pushed
\* from it.
C11_HwFailureFallsBackToSoftware ==
    (/\ RanToEnd
     /\ spawn_errors = <<>>
     /\ \E i \in HwDecoders : procs[i].out = 0)
        => \E j \in SwDecoders : procs[j].hwaccel = None /\ procs[j].out >= 1

\* C12: when stop() has returned, every monitor thread of the pipeline has
\* exited.
C12_StopJoinsMonitors ==
    ui_pc = "stopped" => \A m \in DOMAIN monitors : monitors[m].pc # "loop"

\* C13: once stop() has returned on a started pipeline, run() has ended, no
\* push() is under way and the frame buffer is empty.
C13_StoppedBufferIsEmpty ==
    (ui_pc = "stopped" /\ run_pc # "unstarted")
        => /\ buffer = <<>>
           /\ run_pc \in {"done", "uncaught"}
           /\ fb_pc["run"] = "idle"

\* stop() has returned after run() pushed frames and clear() dropped them.
C13_Witness ==
    /\ ui_pc = "stopped"
    /\ run_pc = "done"
    /\ cleared # None
    /\ cleared[1] >= 1
    /\ buffer = <<>>

\* C14: once stop() has set running to false on a started pipeline, running
\* stays false.
C14_StopKeepsRunningFalse ==
    [][(ui_pc # "idle" /\ run_pc # "unstarted" /\ ~running) => ~running']_vars

\* --------------------------------------------- end of stream and failures
\* A read of decoder i has come back without a full frame.
Ended(i) == procs[i].ended # "no"

SpawnFailed(kind) == \E k \in DOMAIN spawn_errors : spawn_errors[k] = kind

\* C16: when the decoder of the software run could not be spawned, the run
\* ends with running false.
C16_SwSpawnFailureStopsPipeline ==
    (run_pc = "done" /\ ui_pc = "idle" /\ SpawnFailed("sw")) => ~running

\* C17: no failure of a decoder interaction leaves run() as an uncaught
\* error.
C17_NoFailureEscapesRun == run_pc # "uncaught"

C19_PushTimeoutKeepsPreloading ==
    [][(/\ run_pc = "preload_push"
        /\ fb_pc["run"] = "idle"
        /\ ~fb_res["run"].ok
        /\ run_pc' # run_pc) => run_pc' = "preload_read"]_vars

Enumerated(t) == SelectSeq(t, LAMBDA line : line # "" /\ line # Header)

\* The header is the first line of the output or is not in it.
HeaderFirstOrAbsent(t) == \A k \in DOMAIN t : t[k] = Header => k = 1

\* The method the priority rule picks among the enumerated ones.
Preferred(t) ==
    IF FirstIn(PriorityList, Range(Enumerated(t))) # None
    THEN FirstIn(PriorityList, Range(Enumerated(t)))
    ELSE Some(Enumerated(t)[1])

\* C21: when the command has enumerated at least one method, with or
\* without the header line before them, detect_hw_acceleration() returns the
\* first method of the priority list that was enumerated, else the first
\* enumerated method.
C21_DetectPicksByPriority ==
    (/\ detection # None
     /\ detection[1].ran
     /\ detection[1].result.ok
     /\ HeaderFirstOrAbsent(detection[1].result.stdout)
     /\ Enumerated(detection[1].result.stdout) # <<>>)
        => detection[1].ret = Preferred(detection[1].result.stdout)

\* C22: detect_hw_acceleration() returns None when the command failed or
\* enumerated no method, and never returns the header line.
C22_DetectNoneWithoutMethods ==
    detection # None
        => /\ detection[1].ret # Some(Header)
           /\ (\/ ~detection[1].result.ok
               \/ Enumerated(detection[1].result.stdout) = <<>>)
                    => detection[1].ret = None

\* ------------------------------------------------------------- the probe
\* The default VideoSpec values other than the duration.
DefaultVideo ==
    [width |-> DefaultWidth, height |-> DefaultHeight,
     frame_rate |-> DefaultFrameRate]

\* Width, height and frame rate can be read from the probe.
SizeAndRateReadable(p) ==
    /\ ~p.raised
    /\ p.has_video
    /\ p.width # None
    /\ p.height # None
    /\ p.r_frame_rate = Some("25/1")

\* The duration can be read from the probe.
DurationReadable(p) == p.duration = Some("10.0")

\* C24: when the probe failed at any step (the call, the video stream, a
\* missing field, text that is no rate or no number), the object has
\* exactly the default width, height, frame rate and duration, at
\* construction and in every later state; when it did not fail, the object
\* keeps the probed values.
C24_ProbeFailureGivesDefaults ==
    IF SizeAndRateReadable(probe) /\ DurationReadable(probe)
    THEN /\ video = [width |-> probe.width[1], height |-> probe.height[1],
                     frame_rate |-> 25]
         /\ duration = 10 * 1000
    ELSE /\ video = DefaultVideo
         /\ duration = DefaultDuration

\* A file whose frame rate reads "abc" while the rest is readable, after a
\* detection and with acceleration toggled off.
C24_Witness ==
    /\ ~probe.raised
    /\ probe.has_video
    /\ probe.width = Some(1920)
    /\ probe.height = Some(1080)
    /\ probe.r_frame_rate = Some("abc")
    /\ DurationReadable(probe)
    /\ video = DefaultVideo
    /\ duration = DefaultDuration
    /\ detection # None
    /\ ~hw_acceleration_enabled

\* C25: when only the duration key is unreadable, the object keeps the
\* probed width, height and frame rate, and its duration is the default
\* (the code computes no frame-count estimate).
C25_DurationFallbackKeepsSize ==
    (SizeAndRateReadable(probe) /\ probe.duration = None)
        => /\ video = [width |-> probe.width[1], height |-> probe.height[1],
                       frame_rate |-> 25]
           /\ duration = DefaultDuration

\* ------------------------------------------------- toggling acceleration
\* run() is in run_with_hw_accel() or about to enter or leave it.
InHwRun == run_pc \in HwLoop \cup {"hw_spawn", "hw_returned"}

SourceFrames == [k \in 1..NumFrames |-> k]

\* run() has ended without a stop(); every decoder it spawned delivered the
\* NumFrames frames of the source and then the end of its stream; and no
\* push() timed out (every frame read was appended).
CompleteRun ==
    /\ RanToEnd
    /\ procs # <<>>
    /\ \E i \in HwDecoders \cup SwDecoders : TRUE
    /\ \A i \in DOMAIN procs : procs[i].out = NumFrames /\ procs[i].ended = "eof"
    /\ Len(pushed) = NumFrames * Len(procs)

RunEnded == run_pc \in {"done", "uncaught"}

\* C27: with a known duration (> 0), a run emits duration_changed at most
\* once and with the object's duration, has emitted it before any
\* frame_ready or position_changed signal, and has emitted it exactly once
\* when it has ended.
C27_OneDurationChangedFirst ==
    duration > 0
        => /\ Len(duration_changed) <= 1
           /\ \A k \in DOMAIN duration_changed : duration_changed[k] = duration
           /\ (frame_ready > 0 \/ position_changed # <<>>)
                => Len(duration_changed) = 1
           /\ RunEnded => Len(duration_changed) = 1

\* ------------------------------------------------ locks and subprocesses
\* A step of run() that spawns a decoder, terminates one or reads from its
\* stdout or stderr. (The UI thread and the monitor threads make no such
\* call: stop() only sets the flag, waits and clears.)
SubprocessStep ==
    \/ PreloadSpawn
    \/ PreloadRead
    \/ PreloadPushed
    \/ HwSpawn
    \/ SwSpawn
    \/ ProcessFrames
    \/ ReadFrame

\* Thread t is between lock() and unlock() of the frame-buffer mutex.
InLockedPart(t) == fb_pc[t] \in {"push_locked", "get_locked", "clear_locked"}

\* C28: whenever run() can make a subprocess call it holds no lock: the
\* frame-buffer mutex is held only between the lock and the unlock of
\* push(), get_latest() and clear(), where the holder makes no other step,
\* and the object has no seek lock and no position lock that could be held.
C28_NoLockAcrossSubprocessCall ==
    /\ (ENABLED SubprocessStep) => mutex # "run"
    /\ \A t \in Threads : mutex = t => InLockedPart(t)
    /\ mutex = "run" => run_pc \in {"preload_push", "hw_push", "sw_push"}
    /\ ~HasAttr("seek_mutex")
    /\ ~HasAttr("position_mutex")

\* run() has pushed a frame and is about to read the next one from the
\* preload decoder while the UI thread holds the mutex in get_latest().
C28_Witness ==
    /\ run_pc = "preload_read"
    /\ fb_pc["run"] = "idle"
    /\ procs[process].live
    /\ pushed # <<>>
    /\ mutex = "ui"
    /\ fb_pc["ui"] = "get_locked"

\* ----------------------------------------------------------- no deadlock
\* Any step of the QThread: of run() itself or of the push() it is in.
RunStep ==
    \/ PreloadSpawn
    \/ PreloadRead
    \/ PreloadPushed
    \/ RunStart
    \/ HwSpawn
    \/ SwSpawn
    \/ ProcessFrames
    \/ ReadFrame
    \/ FramePushed
    \/ HwReturned
    \/ FrameBufferStep("run")

\* run() has been started and has not ended.
RunUnderWay == run_pc \notin {"unstarted", "done", "uncaught"}

\* C29: no thread is ever blocked for good. A thread outside the
\* FrameBuffer methods does not hold the mutex (what was acquired has been
\* released); a thread inside one can take its next step, or waits for the
\* mutex while the thread holding it can take its next step; a started
\* run() can always take a step, so that the wait() of stop() ends; stop()
\* past its wait is in clear() or can return; a seek() call has ended; and
\* a monitor whose sleep is over can make its tick.
C29_NoDeadlock ==
    /\ \A t \in Threads : fb_pc[t] = "idle" => mutex # t
    /\ \A t \in Threads :
        fb_pc[t] # "idle"
            => \/ ENABLED FrameBufferStep(t)
               \/ /\ mutex \in Threads \ {t}
                  /\ ENABLED FrameBufferStep(mutex)
    /\ RunUnderWay => ENABLED RunStep
    /\ ui_pc = "stop_wait" => (RunUnderWay \/ ENABLED StopJoin)
    /\ ui_pc = "stop_clear" => (fb_pc["ui"] # "idle" \/ ENABLED StopReturn)
    /\ seeks > 0 => last_seek.outcome \in {"returned", "AttributeError"}
    /\ \A m \in DOMAIN monitors :
        (monitors[m].pc = "loop" /\ now >= monitors[m].wake)
            => ENABLED MonitorTick(m)

\* After a seek() call, the push() of run() waits for the mutex that the UI
\* thread holds in get_latest().
C29_Witness ==
    /\ seeks > 0
    /\ fb_pc["run"] = "push_wait"
    /\ mutex = "ui"
    /\ fb_pc["ui"] = "get_locked"
    /\ buffer # <<>>

\* --------------------------------------------------- the current position
\* current_position before any monitor tick has stored one: 0 on an object
\* that has the attribute, -1 (no value) on one that has not.
UnwrittenPosition == IF HasAttr("current_position") THEN 0 ELSE -1

\* C30: the current position is what the last monitor tick that published
\* a position stored, and is unwritten while no tick has published one:
\* no call of seek() or stop(), no step of the preload, of the read loop or
\* of the fallback has changed it.
C30_OnlyMonitorWritesPosition ==
    current_position =
        IF position_changed # <<>>
        THEN position_changed[Len(position_changed)]
        ELSE UnwrittenPosition

\* seek() was called with a target other than the position, the preload
\* pushed frames, the hardware run fell back to the software run, a monitor
\* thread was started, and stop() has returned.
C30_Witness ==
    /\ seeks > 0
    /\ last_seek.arg # current_position
    /\ ui_pc = "stopped"
    /\ cleared # None
    /\ cleared[1] >= 1
    /\ HwDecoders # {}
    /\ SwDecoders # {}
    /\ monitors # <<>>

C32_NoFallbackAfterStop ==
    [][(run_pc = "hw_returned" /\ ui_pc # "idle") => run_pc' # "sw_spawn"]_vars

\* ------------------------------------------------- the order of the states
\* The pipeline state run() is in: 0 Idle, 1 Preloading (up to the
\* detection), 2 Running{hw}, 3 Running{sw}, 4 Stopped (run() has ended).
Phase ==
    IF run_pc = "unstarted" THEN 0
    ELSE IF run_pc \in {"preload_spawn", "preload_read", "preload_push", "run_start"}
    THEN 1
    ELSE IF InHwRun THEN 2
    ELSE IF run_pc \in {"sw_spawn", "sw_frames", "sw_read", "sw_push"} THEN 3
    ELSE 4

\* How often run() has set out to spawn a decoder of this kind.
Attempts(kind) ==
    Cardinality({i \in DOMAIN procs : procs[i].kind = kind})
        + Cardinality({k \in DOMAIN spawn_errors : spawn_errors[k] = kind})

\* C33: each of the preload, the hardware run and the software run is
\* attempted at most once; before the detection neither run has been
\* attempted; during the hardware run the software run has not been
\* attempted and the method is the detected one; in the software run the
\* method is none; in the list of decoders no preload follows a playback
\* decoder and no hardware decoder follows a software one; and the method
\* differs from the detected one only after the hardware run was left for
\* the software run, and then it is none.
C33_StatesMoveForward ==
    /\ \A kind \in {"preload", "hw", "sw"} : Attempts(kind) <= 1
    /\ Phase = 0 => (procs = <<>> /\ spawn_errors = <<>>)
    /\ Phase <= 1 => (Attempts("hw") = 0 /\ Attempts("sw") = 0 /\ detection = None)
    /\ Phase = 2
        => /\ Attempts("sw") = 0
           /\ hw_accel_method # None
           /\ hw_accel_method = detection[1].ret
    /\ Phase = 3 => hw_accel_method = None
    /\ \A i, j \in DOMAIN procs :
        i < j => /\ procs[j].kind # "preload"
                 /\ procs[j].kind = "hw" => procs[i].kind # "sw"
    /\ detection # None
        => \/ hw_accel_method = detection[1].ret
           \/ /\ hw_accel_method = None
              /\ Phase >= 3
              /\ Attempts("hw") = 1

\* run() has ended after the hardware decoder and then the software decoder
\* were spawned; the detected method was cuda and the method is now none.
C33_Witness ==
    /\ run_pc = "done"
    /\ HwDecoders # {}
    /\ SwDecoders # {}
    /\ detection # None
    /\ detection[1].ret = Some("cuda")
    /\ hw_accel_method = None

\* ----------------------------------------------------- the monitor threads
\* The monitor threads that have been started and have not ended.
ActiveMonitors == {m \in DOMAIN monitors : monitors[m].pc = "loop"}

\* C34: at most one monitor thread is active at any time.
C34_AtMostOneMonitor == Cardinality(ActiveMonitors) <= 1

\* -------------------------------------------------- decoders are terminated
\* The decoders that have been spawned and not terminated.
LiveDecoders == {i \in DOMAIN procs : procs[i].live}

\* C35: at most one decoder is live at any time, and it is the one run()
\* holds; while run() is not started and once it has ended, by return or
\* by an uncaught error, no decoder is live.
C35_DecodersTerminated ==
    /\ Cardinality(LiveDecoders) <= 1
    /\ \A i \in LiveDecoders : process = i
    /\ (run_pc = "unstarted" \/ RunEnded) => LiveDecoders = {}

\* stop() has returned after run() spawned the preload decoder, the
\* hardware decoder and the software decoder, and none of them is live.
C35_Witness ==
    /\ ui_pc = "stopped"
    /\ run_pc = "done"
    /\ Len(procs) = 3
    /\ LiveDecoders = {}
    /\ \E i \in DOMAIN procs : procs[i].kind = "preload" /\ procs[i].out >= 1

====
